---- MODULE Spec2Model ----
(***************************************************************************)
(* A model of cropsicle.c (GrowCut segmentation): process_file and the     *)
(* automaton it drives.                                                    *)
(*                                                                         *)
(* Numbers.  A C float v is modelled as the integer v * Q (fixed point,    *)
(* resolution 1/Q); a product or a quotient is rounded to the nearest      *)
(* representable value, ties to even, symmetrically in the sign, as IEEE   *)
(* arithmetic does.  Arrays are functions over 0 .. n-1, laid out flat as   *)
(* in the source: strength[index], g_array[index * 8 + i],                  *)
(* image_array[index * 3 + c].                                              *)
(***************************************************************************)
EXTENDS Integers, Sequences, FiniteSets, TLC

\* Resolution of the modelled floats: 1.0 is Q.
Q == 8

\* Largest width and height of a grid.
MaxDim == 3

\* The iteration ceiling of process_file. The source's value is 2000; the
\* model scales it down so that runs on small grids reach the ceiling.
max_iter == 3

N_THREADS == 4

VARIABLES
  pc,               \* position in process_file
  image,            \* the source Image: [width, height, rows]
  overlay,          \* the overlay Image
  image_array,      \* colour field, 3 floats per pixel
  heap,             \* the two strength blocks malloc'ed by process_file
  overlay_array_a,  \* pointer (block id) read by the next step
  overlay_array_b,  \* pointer (block id) written by the next step
  g_array,          \* affinity field, 8 floats per pixel
  iter,             \* process_file's iter
  hist,             \* history: the value returned by each process_iteration call
  seeds,            \* history: block A as it was before the first step
  last_out,         \* history: id of the block the last step wrote (0: none yet)
  acc,              \* history: the <<index, i>> neighbour reads made by the steps
  thr               \* the worker threads of the step in progress

vars == <<pc, image, overlay, image_array, heap, overlay_array_a, overlay_array_b,
          g_array, iter, hist, seeds, last_out, acc, thr>>

(***************************************************************************)
(* Float arithmetic                                                        *)
(***************************************************************************)

\* fabsf
Abs(x) == IF x < 0 THEN -x ELSE x

\* n / d (d > 0) rounded to the nearest integer, ties to even.
RoundDiv(n, d) ==
  LET a == Abs(n)
      q == a \div d
      r == a % d
      m == IF 2 * r > d \/ (2 * r = d /\ q % 2 = 1) THEN q + 1 ELSE q
  IN IF n < 0 THEN -m ELSE m

\* float * float
FMul(a, b) == RoundDiv(a * b, Q)

\* float / float, for a positive divisor
FDiv(a, b) == RoundDiv(a * Q, b)

\* The slot of g_array that calc_g never writes (malloc'ed, not memset).
Unset == Q * Q + 1

\* TRUE, for any step state st. A loop of the source is a recursive operator
\* that carries the loop's state; "IF Strict(next) THEN loop(next) ELSE next"
\* has the model checker compute each iteration's state before the next one.
Strict(st) == DOMAIN st # {}

\* A read of array[k]. Outside the block the read is undefined; the
\* model yields 0 there and BoundsSafe shows that no step gets there.
Rd(array, k) == IF k \in DOMAIN array THEN array[k] ELSE 0

\* A read of g_array[k]: an unset slot holds an indeterminate float.
RdG(array, k) == IF k \in DOMAIN array /\ array[k] # Unset THEN array[k] ELSE 0

\* array[k] = v
Wr(array, k, v) == IF k \in DOMAIN array THEN [array EXCEPT ![k] = v] ELSE array

(***************************************************************************)
(* The update rule                                                         *)
(***************************************************************************)

nx8 == [i \in 0..7 |-> <<-1, 0, 1, -1, 1, -1, 0, 1>>[i + 1]]
ny8 == [i \in 0..7 |-> <<-1, -1, -1, 0, 0, 1, 1, 1>>[i + 1]]

\* process_iteration's neighbor_index_ofs
neighbor_index_ofs(width) == [i \in 0..7 |-> nx8[i] + ny8[i] * width]

\* The bounds test of process_pixel_border and calc_g, negated.
InGrid(width, height, x, y) == ~(x < 0 \/ x >= width \/ y < 0 \/ y >= height)

\* A step's state st is [out, converged, acc]: the out block, the
\* converged flag, and the neighbour reads made so far.

\* Variant of process_pixel_neighbor_border: g + in[neighbor] for the candidate.
process_pixel_neighbor_border_sum(index, overlay_array_in, st, garr, ofs, i) ==
  LET neighbor_index == index + ofs[i]
      g == RdG(garr, index * 8 + i)
      cand == g + Rd(overlay_array_in, neighbor_index)
      hit == Abs(cand) > Abs(Rd(st.out, index))
  IN [out |-> IF hit THEN Wr(st.out, index, cand) ELSE st.out,
      converged |-> IF hit THEN FALSE ELSE st.converged,
      acc |-> st.acc \cup {<<index, i>>}]

\* Variant of process_pixel_neighbor_border: the neighbour's strength is
\* read from the out block.
process_pixel_neighbor_border_out(index, overlay_array_in, st, garr, ofs, i) ==
  LET neighbor_index == index + ofs[i]
      g == RdG(garr, index * 8 + i)
      cand == FMul(g, Rd(st.out, neighbor_index))
      hit == Abs(cand) > Abs(Rd(st.out, index))
  IN [out |-> IF hit THEN Wr(st.out, index, cand) ELSE st.out,
      converged |-> IF hit THEN FALSE ELSE st.converged,
      acc |-> st.acc \cup {<<index, i>>}]

\* Variant of process_pixel_neighbor_border: < for the comparison.
process_pixel_neighbor_border_lt(index, overlay_array_in, st, garr, ofs, i) ==
  LET neighbor_index == index + ofs[i]
      g == RdG(garr, index * 8 + i)
      cand == FMul(g, Rd(overlay_array_in, neighbor_index))
      hit == Abs(cand) < Abs(Rd(st.out, index))
  IN [out |-> IF hit THEN Wr(st.out, index, cand) ELSE st.out,
      converged |-> IF hit THEN FALSE ELSE st.converged,
      acc |-> st.acc \cup {<<index, i>>}]

\* Variant of process_pixel_neighbor_border: >= for the comparison.
process_pixel_neighbor_border_ge(index, overlay_array_in, st, garr, ofs, i) ==
  LET neighbor_index == index + ofs[i]
      g == RdG(garr, index * 8 + i)
      cand == FMul(g, Rd(overlay_array_in, neighbor_index))
      hit == Abs(cand) >= Abs(Rd(st.out, index))
  IN [out |-> IF hit THEN Wr(st.out, index, cand) ELSE st.out,
      converged |-> IF hit THEN FALSE ELSE st.converged,
      acc |-> st.acc \cup {<<index, i>>}]

process_pixel_neighbor_border(index, overlay_array_in, st, garr, ofs, i) ==
  LET neighbor_index == index + ofs[i]
      g == RdG(garr, index * 8 + i)
      cand == FMul(g, Rd(overlay_array_in, neighbor_index))
      hit == Abs(cand) > Abs(Rd(st.out, index))
  IN [out |-> IF hit THEN Wr(st.out, index, cand) ELSE st.out,
      converged |-> IF hit THEN FALSE ELSE st.converged,
      acc |-> st.acc \cup {<<index, i>>}]

\* Variant of border_dirs: the directions are visited from SE back to NW.
RECURSIVE border_dirs_reverse(_, _, _, _, _, _, _, _, _)
border_dirs_reverse(width, height, x, y, overlay_array_in, st, garr, ofs, i) ==
  IF i < 8
  THEN LET next == IF InGrid(width, height, x + nx8[7 - i], y + ny8[7 - i])
                   THEN process_pixel_neighbor_border(width * y + x, overlay_array_in,
                                                      st, garr, ofs, 7 - i)
                   ELSE st
       IN IF Strict(next)
          THEN border_dirs_reverse(width, height, x, y, overlay_array_in, next, garr,
                                   ofs, i + 1)
          ELSE next
  ELSE st

RECURSIVE border_dirs(_, _, _, _, _, _, _, _, _)
border_dirs(width, height, x, y, overlay_array_in, st, garr, ofs, i) ==
  IF i < 8
  THEN LET next == IF InGrid(width, height, x + nx8[i], y + ny8[i])
                   THEN process_pixel_neighbor_border(width * y + x, overlay_array_in,
                                                      st, garr, ofs, i)
                   ELSE st
       IN IF Strict(next)
          THEN border_dirs(width, height, x, y, overlay_array_in, next, garr, ofs, i + 1)
          ELSE next
  ELSE st

\* Variant of process_pixel_border: out[index] is not set to in[index] first.
process_pixel_border_nocopy(width, height, x, y, overlay_array_in, st, garr, ofs) ==
  border_dirs(width, height, x, y, overlay_array_in, st, garr, ofs, 0)

\* Variant of process_pixel_border: out[index] is set to 0 first, not to
\* in[index].
process_pixel_border_zero(width, height, x, y, overlay_array_in, st, garr, ofs) ==
  LET index == width * y + x
  IN border_dirs(width, height, x, y, overlay_array_in,
                 [st EXCEPT !.out = Wr(st.out, index, 0)],
                 garr, ofs, 0)

process_pixel_border(width, height, x, y, overlay_array_in, st, garr, ofs) ==
  LET index == width * y + x
  IN border_dirs(width, height, x, y, overlay_array_in,
                 [st EXCEPT !.out = Wr(st.out, index, Rd(overlay_array_in, index))],
                 garr, ofs, 0)

\* Variant of process_pixel_neighbor_internal: >= for the comparison.
process_pixel_neighbor_internal_ge(index, overlay_array_in, st, garr, ofs, i) ==
  LET neighbor_index == index + ofs[i]
      g == RdG(garr, index * 8 + i)
      cand == FMul(g, Rd(overlay_array_in, neighbor_index))
      hit == Abs(cand) >= Abs(Rd(st.out, index))
  IN [out |-> IF hit THEN Wr(st.out, index, cand) ELSE st.out,
      converged |-> IF hit THEN FALSE ELSE st.converged,
      acc |-> st.acc \cup {<<index, i>>}]

process_pixel_neighbor_internal(index, overlay_array_in, st, garr, ofs, i) ==
  LET neighbor_index == index + ofs[i]
      g == RdG(garr, index * 8 + i)
      cand == FMul(g, Rd(overlay_array_in, neighbor_index))
      hit == Abs(cand) > Abs(Rd(st.out, index))
  IN [out |-> IF hit THEN Wr(st.out, index, cand) ELSE st.out,
      converged |-> IF hit THEN FALSE ELSE st.converged,
      acc |-> st.acc \cup {<<index, i>>}]

RECURSIVE internal_dirs(_, _, _, _, _, _)
internal_dirs(index, overlay_array_in, st, garr, ofs, i) ==
  IF i < 8
  THEN LET next == process_pixel_neighbor_internal(index, overlay_array_in, st,
                                                   garr, ofs, i)
       IN IF Strict(next)
          THEN internal_dirs(index, overlay_array_in, next, garr, ofs, i + 1)
          ELSE next
  ELSE st

process_pixel_internal(index, overlay_array_in, st, garr, ofs) ==
  internal_dirs(index, overlay_array_in,
                [st EXCEPT !.out = Wr(st.out, index, Rd(overlay_array_in, index))],
                garr, ofs, 0)

(***************************************************************************)
(* One step: the interior rows and the four border strips                  *)
(***************************************************************************)

\* Variant of index_max_of: the last row is not left out.
index_max_of_height(width, height) == height * width - 1

\* process_iteration's index_max
index_max_of(width, height) == (height - 1) * width - 1

\* The row loop of the interior, shared by process_iteration_thread
\* (skip = (N_THREADS - 1) * width) and by the sequential process_iteration
\* (skip = 0): the sequence of the indexes handed to process_pixel_internal.
\* The inner for leaves index at index_line_max when it ran at all.
RECURSIVE interior_loop(_, _, _, _, _)
interior_loop(index, index_max, width, skip, visited) ==
  IF index < index_max
  THEN LET index_line_max == index + width - 2
           ran == index < index_line_max
           line == IF ran THEN [k \in 1..(index_line_max - index) |-> index + k - 1]
                          ELSE <<>>
           after == IF ran THEN index_line_max ELSE index
       IN interior_loop(after + skip + 1 + 1, index_max, width, skip, visited \o line)
  ELSE visited

\* Variant of thread_indices: every thread starts at row 1, thread_n is
\* not used.
thread_indices_row1(width, height, thread_n) ==
  interior_loop(width + 1, index_max_of(width, height), width,
                (N_THREADS - 1) * width, <<>>)

\* Variant of thread_indices: a thread skips N_THREADS - 2 rows, not
\* N_THREADS - 1, after each of its rows.
thread_indices_short(width, height, thread_n) ==
  interior_loop(width + thread_n * width + 1, index_max_of(width, height), width,
                (N_THREADS - 2) * width, <<>>)

\* The indexes process_iteration_thread visits for thread_n.
thread_indices(width, height, thread_n) ==
  interior_loop(width + thread_n * width + 1, index_max_of(width, height), width,
                (N_THREADS - 1) * width, <<>>)

\* The indexes the interior loop of the sequential process_iteration visits.
sequential_indices(width, height) ==
  interior_loop(width + 1, index_max_of(width, height), width, 0, <<>>)

\* Variant of border_cells: the right column is left out.
border_cells_no_right(width, height) ==
  [k \in 1..width |-> <<k - 1, 0>>]
    \o [k \in 1..width |-> <<k - 1, height - 1>>]
    \o (IF height > 2 THEN [k \in 1..(height - 2) |-> <<0, k>>] ELSE <<>>)

\* The <<x, y>> process_iteration_borders_thread hands to process_pixel_border,
\* in order: top row, bottom row, left column, right column.
border_cells(width, height) ==
  [k \in 1..width |-> <<k - 1, 0>>]
    \o [k \in 1..width |-> <<k - 1, height - 1>>]
    \o (IF height > 2 THEN [k \in 1..(height - 2) |-> <<0, k>>] ELSE <<>>)
    \o (IF height > 2 THEN [k \in 1..(height - 2) |-> <<width - 1, k>>] ELSE <<>>)

RECURSIVE run_internal(_, _, _, _, _, _)
run_internal(indexes, k, overlay_array_in, st, garr, ofs) ==
  IF k <= Len(indexes)
  THEN LET next == process_pixel_internal(indexes[k], overlay_array_in, st, garr, ofs)
       IN IF Strict(next)
          THEN run_internal(indexes, k + 1, overlay_array_in, next, garr, ofs)
          ELSE next
  ELSE st

RECURSIVE run_border(_, _, _, _, _, _, _, _)
run_border(width, height, cells, k, overlay_array_in, st, garr, ofs) ==
  IF k <= Len(cells)
  THEN LET next == process_pixel_border(width, height, cells[k][1], cells[k][2],
                                        overlay_array_in, st, garr, ofs)
       IN IF Strict(next)
          THEN run_border(width, height, cells, k + 1, overlay_array_in, next, garr, ofs)
          ELSE next
  ELSE st

\* A worker's whole run on the shared out block; st.converged is its local
\* converged (1 at entry), returned as the thread's result.
process_iteration_thread(width, height, thread_n, overlay_array_in, st, garr) ==
  run_internal(thread_indices(width, height, thread_n), 1, overlay_array_in,
               [st EXCEPT !.converged = TRUE], garr, neighbor_index_ofs(width))

process_iteration_borders_thread(width, height, overlay_array_in, st, garr) ==
  run_border(width, height, border_cells(width, height), 1, overlay_array_in,
             [st EXCEPT !.converged = TRUE], garr, neighbor_index_ofs(width))

\* The join loop: converged = 1; converged &= ret for each of the threads.
\* Variant of collect: the results are combined with "or".
collect_any(rets) == \E k \in 1..Len(rets) : rets[k]

collect(rets) == \A k \in 1..Len(rets) : rets[k]

\* process_iteration (WITH_THREADS) as a whole, from pthread_create to the
\* last pthread_join: [out, converged, acc].
RECURSIVE run_threads(_, _, _, _, _, _, _)
run_threads(width, height, overlay_array_in, st, garr, n, rets) ==
  IF n < N_THREADS
  THEN LET t == process_iteration_thread(width, height, n, overlay_array_in, st, garr)
       IN IF Strict(t)
          THEN run_threads(width, height, overlay_array_in, t, garr, n + 1,
                           Append(rets, t.converged))
          ELSE t
  ELSE LET b == process_iteration_borders_thread(width, height, overlay_array_in,
                                                 st, garr)
       IN [out |-> b.out, converged |-> collect(Append(rets, b.converged)),
           acc |-> b.acc]

process_iteration(width, height, overlay_array_in, overlay_array_out, garr) ==
  run_threads(width, height, overlay_array_in,
              [out |-> overlay_array_out, converged |-> TRUE, acc |-> {}],
              garr, 0, <<>>)

\* process_iteration without WITH_THREADS (the #else branch).
process_iteration_sequential(width, height, overlay_array_in, overlay_array_out, garr) ==
  LET ofs == neighbor_index_ofs(width)
      s0 == [out |-> overlay_array_out, converged |-> TRUE, acc |-> {}]
      s1 == run_internal(sequential_indices(width, height), 1, overlay_array_in,
                         s0, garr, ofs)
  IN run_border(width, height, border_cells(width, height), 1, overlay_array_in,
                s1, garr, ofs)

(***************************************************************************)
(* process_file: the loop and the mask                                     *)
(***************************************************************************)

\* No step in progress.
ThrIdle == [active |-> FALSE,
            pos |-> [n \in 0..N_THREADS |-> 0],
            ret |-> [n \in 0..N_THREADS |-> TRUE],
            wrote |-> <<>>,
            out0 |-> <<>>,
            seq |-> [heap |-> << <<>>, <<>> >>, hist |-> <<>>]]

\* Variant of loop_test: <= for the ceiling.
loop_test_le(converged, it) == ~converged /\ it + 1 <= max_iter

\* The while condition after a call that returned converged:
\* !converged && (++iter < max_iter).
loop_test(converged, it) == ~converged /\ it + 1 < max_iter

\* iter after the while condition: ++iter is evaluated only when the call
\* returned 0.
iter_after(converged, it) == IF converged THEN it ELSE it + 1

\* get_pixel: the four bytes of pixel (x, y), 1-based here: out[0] is p[1].
\* Out of the image it sets out[0..2] to 0xff and writes out[4], past the
\* caller's 4-byte array, so that out[3] keeps what the caller's
\* uninitialised array held: junk.
get_pixel(img, x, y, junk) ==
  IF x < 0 \/ y < 0 \/ x >= img.width \/ y >= img.height
  THEN <<255, 255, 255, junk>>
  ELSE img.rows[y][x]

\* image_pixel [3] = alpha
set_alpha(p, alpha) == <<p[1], p[2], p[3], alpha>>

\* Variant of mask_alpha: >= for the comparison.
mask_alpha_ge(v) == IF v >= 0 THEN 255 ELSE 0

\* The alpha written for a strength v: v > 0.0 ? 0xff : 0x00.
mask_alpha(v) == IF v > 0 THEN 255 ELSE 0

\* The rest of the while condition once process_iteration has returned
\* converged, and the body (the swap) when the condition holds.
\* Variant of LoopTail: the swap without tmp_array.
LoopTail_no_tmp(converged) ==
  /\ hist' = Append(hist, converged)
  /\ iter' = iter_after(converged, iter)
  /\ IF loop_test(converged, iter)
     THEN /\ overlay_array_a' = overlay_array_b
          /\ overlay_array_b' = overlay_array_b
          /\ pc' = "process"
     ELSE /\ UNCHANGED <<overlay_array_a, overlay_array_b>>
          /\ pc' = "alpha"
  /\ last_out' = overlay_array_b

LoopTail(converged) ==
  /\ hist' = Append(hist, converged)
  /\ iter' = iter_after(converged, iter)
  /\ IF loop_test(converged, iter)
     THEN /\ overlay_array_a' = overlay_array_b
          /\ overlay_array_b' = overlay_array_a
          /\ pc' = "process"
     ELSE /\ UNCHANGED <<overlay_array_a, overlay_array_b>>
          /\ pc' = "alpha"
  /\ last_out' = overlay_array_b

\* One evaluation of the while condition, the call of process_iteration
\* included, and the body when the condition holds.
Process ==
  /\ pc = "process"
  /\ \E r \in {process_iteration(image.width, image.height, heap[overlay_array_a],
                                heap[overlay_array_b], g_array)} :
        /\ heap' = [heap EXCEPT ![overlay_array_b] = r.out]
        /\ acc' = acc \cup r.acc
        /\ LoopTail(r.converged)
  /\ UNCHANGED <<image, overlay, image_array, g_array, seeds, thr>>

\* Variant of GenerateAlpha: built with SHOW_EFFECTS, the colour channels
\* are taken from image_array.
GenerateAlpha_show_effects ==
  /\ pc = "alpha"
  /\ image' = [image EXCEPT !.rows =
                 [y \in 0..(image.height - 1) |->
                    [x \in 0..(image.width - 1) |->
                       LET k == (x + (y * image.width)) * 3
                       IN <<(Rd(image_array, k) * 255) \div Q,
                            (Rd(image_array, k + 1) * 255) \div Q,
                            (Rd(image_array, k + 2) * 255) \div Q,
                            mask_alpha(Rd(heap[overlay_array_b],
                                          x + (y * image.width)))>>]]]
  /\ pc' = "done"
  /\ UNCHANGED <<overlay, image_array, heap, overlay_array_a, overlay_array_b,
                 g_array, iter, hist, seeds, last_out, acc, thr>>

\* Variant of GenerateAlpha: the alpha is taken from block A.
GenerateAlpha_from_a ==
  /\ pc = "alpha"
  /\ image' = [image EXCEPT !.rows =
                 [y \in 0..(image.height - 1) |->
                    [x \in 0..(image.width - 1) |->
                       set_alpha(get_pixel(image, x, y, 0),
                                 mask_alpha(Rd(heap[overlay_array_a],
                                               x + (y * image.width))))]]]
  /\ pc' = "done"
  /\ UNCHANGED <<overlay, image_array, heap, overlay_array_a, overlay_array_b,
                 g_array, iter, hist, seeds, last_out, acc, thr>>

\* "Generate alpha from arrays": for every pixel get_pixel, the alpha from
\* block B, set_pixel.
GenerateAlpha ==
  /\ pc = "alpha"
  /\ image' = [image EXCEPT !.rows =
                 [y \in 0..(image.height - 1) |->
                    [x \in 0..(image.width - 1) |->
                       set_alpha(get_pixel(image, x, y, 0),
                                 mask_alpha(Rd(heap[overlay_array_b],
                                               x + (y * image.width))))]]]
  /\ pc' = "done"
  /\ UNCHANGED <<overlay, image_array, heap, overlay_array_a, overlay_array_b,
                 g_array, iter, hist, seeds, last_out, acc, thr>>

(***************************************************************************)
(* SpecEngine: the automaton on bounded strength and affinity fields       *)
(***************************************************************************)

Dims == 1..MaxDim

\* The strength fields with at most one foreground seed (+1.0) and at most
\* one background seed (-1.0), all other cells 0.
SeedFields(n) ==
  {[index \in 0..(n - 1) |-> IF index = f THEN Q ELSE IF index = b THEN -Q ELSE 0] :
     f \in -1..(n - 1), b \in -1..(n - 1)}

\* The weights of the bounded affinity fields: -1, -1/2, 0, 1/2, 1.
GVals == <<-Q, -(Q \div 2), 0, Q \div 2, Q>>

\* The affinity field whose weight at (index, i) is GVals[(ga*index + gb*i + gc) mod 5]:
\* uniform for ga = gb = 0, varying with the direction, the pixel or both
\* otherwise. The slots whose neighbour is out of the grid are unset, as
\* calc_g leaves them.
GField(width, height, ga, gb, gc) ==
  [k \in 0..(width * height * 8 - 1) |->
     LET index == k \div 8
         i == k % 8
     IN IF InGrid(width, height, (index % width) + nx8[i], (index \div width) + ny8[i])
        THEN GVals[1 + ((ga * index + gb * i + gc) % Len(GVals))]
        ELSE Unset]

GFields(width, height) ==
  {GField(width, height, ga, gb, gc) : ga \in 0..1, gb \in 0..1, gc \in 0..(Len(GVals) - 1)}

BlankImage(width, height) ==
  [width |-> width, height |-> height,
   rows |-> [y \in 0..(height - 1) |-> [x \in 0..(width - 1) |-> <<0, 0, 0, 255>>]]]

InitEngine ==
  \E width \in Dims, height \in Dims :
    \E s \in SeedFields(width * height), g \in GFields(width, height) :
      /\ pc = "process"
      /\ image = BlankImage(width, height)
      /\ overlay = BlankImage(width, height)
      /\ image_array = [k \in 0..(width * height * 3 - 1) |-> 0]
      /\ heap = <<s, [index \in 0..(width * height - 1) |-> 0]>>
      /\ overlay_array_a = 1
      /\ overlay_array_b = 2
      /\ g_array = g
      /\ iter = 0
      /\ hist = <<>>
      /\ seeds = s
      /\ last_out = 0
      /\ acc = {}
      /\ thr = ThrIdle

NextEngine == Process \/ GenerateAlpha

SpecEngine == InitEngine /\ [][NextEngine]_vars

(***************************************************************************)
(* process_file: building the fields                                       *)
(***************************************************************************)

\* (float) byte / 255.0
byte_to_float(b) == RoundDiv(b * Q, 255)

\* Variant of seed_of: >= for the opacity test.
seed_of_ge(p) ==
  IF p[4] >= 128
  THEN IF p[1] > p[2] + 128 THEN -Q ELSE Q
  ELSE 0

\* The initial strength of a pixel from its overlay sample (lines 652-664).
seed_of(p) ==
  IF p[4] > 128
  THEN IF p[1] > p[2] + 128 THEN -Q ELSE Q
  ELSE 0

\* The overlay pixels get_pixel finds out of the overlay image.
OutOfOverlay(img, ovl) ==
  {<<x, y>> \in (0..(img.width - 1)) \X (0..(img.height - 1)) :
     x >= ovl.width \/ y >= ovl.height}

\* The values an uninitialised byte is modelled to hold: one on each side of
\* the opacity threshold.
JunkBytes == {0, 255}

\* malloc, memset and "Init arrays" (lines 624-666). g_array is malloc'ed
\* and not cleared: every slot is unset.
InitArrays ==
  /\ pc = "start"
  /\ \E junk \in [OutOfOverlay(image, overlay) -> JunkBytes] :
       LET n == image.width * image.height
           pixel_a(index) ==
             LET x == index % image.width
                 y == index \div image.width
             IN seed_of(get_pixel(overlay, x, y,
                                  IF <<x, y>> \in DOMAIN junk THEN junk[<<x, y>>] ELSE 0))
           a == [index \in 0..(n - 1) |-> pixel_a(index)]
       IN /\ image_array' =
               [k \in 0..(n * 3 - 1) |->
                  byte_to_float(get_pixel(image, (k \div 3) % image.width,
                                          (k \div 3) \div image.width, 0)[(k % 3) + 1])]
          /\ heap' = <<a, [index \in 0..(n - 1) |-> 0]>>
          /\ seeds' = a
          /\ g_array' = [k \in 0..(n * 8 - 1) |-> Unset]
  /\ overlay_array_a' = 1
  /\ overlay_array_b' = 2
  /\ pc' = "blur"
  /\ UNCHANGED <<image, overlay, iter, hist, last_out, acc, thr>>

nx9 == [i \in 0..8 |-> <<0, -1, 0, 1, -1, 1, -1, 0, 1>>[i + 1]]
ny9 == [i \in 0..8 |-> <<0, -1, -1, -1, 0, 0, 1, 1, 1>>[i + 1]]

RECURSIVE SumOver(_, _)
SumOver(f, S) ==
  IF S = {} THEN 0
  ELSE LET e == CHOOSE e \in S : TRUE IN f[e] + SumOver(f, S \ {e})

\* blur_image_array: temp_array is filled from array alone and then copied
\* over it, so every value read is a value of the field before the call.
blur_image_array(width, height, array) ==
  [k \in DOMAIN array |->
     LET c == k % 3
         x == (k \div 3) % width
         y == (k \div 3) \div width
         near == {i \in 0..8 : InGrid(width, height, x + nx9[i], y + ny9[i])}
         term == [i \in near |-> array[(x + nx9[i] + ((y + ny9[i]) * width)) * 3 + c]]
         n_pixels == Cardinality(near)
     IN RoundDiv(SumOver(term, near), n_pixels)]

Blur ==
  /\ pc = "blur"
  /\ image_array' = blur_image_array(image.width, image.height, image_array)
  /\ pc' = "calc_g"
  /\ UNCHANGED <<image, overlay, heap, overlay_array_a, overlay_array_b, g_array,
                 iter, hist, seeds, last_out, acc, thr>>

\* calc_g's maxC, the float nearest 1.732050808 (the literal is cut to five
\* digits to keep the product within the model checker's integers).
maxC == RoundDiv(17321 * Q, 10000)

\* sqrtf of a non-negative float
FSqrt(s) ==
  CHOOSE v \in 0..(2 * Q + 1) :
    /\ 4 * s * Q < (2 * v + 1) * (2 * v + 1)
    /\ v = 0 \/ (2 * v - 1) * (2 * v - 1) <= 4 * s * Q

\* The weight calc_g stores for pixel_offset and neighbor_offset: 1.0 - C / maxC.
g_of(array, pixel_offset, neighbor_offset) ==
  LET d0 == array[pixel_offset] - array[neighbor_offset]
      d1 == array[pixel_offset + 1] - array[neighbor_offset + 1]
      d2 == array[pixel_offset + 2] - array[neighbor_offset + 2]
      C == FSqrt(FMul(d0, d0) + FMul(d1, d1) + FMul(d2, d2))
  IN Q - FDiv(C, maxC)

\* g_array after calc_g has run for every pixel (lines 670-674): the slots
\* of the out-of-grid directions keep what they held.
calc_g_all(width, height, array, garr) ==
  [k \in DOMAIN garr |->
     LET pixel_index == k \div 8
         i == k % 8
         x == pixel_index % width
         y == pixel_index \div width
     IN IF InGrid(width, height, x + nx8[i], y + ny8[i])
        THEN g_of(array, pixel_index * 3, (x + nx8[i] + ((y + ny8[i]) * width)) * 3)
        ELSE garr[k]]

CalcG ==
  /\ pc = "calc_g"
  /\ g_array' = calc_g_all(image.width, image.height, image_array, g_array)
  /\ pc' = "process"
  /\ UNCHANGED <<image, overlay, image_array, heap, overlay_array_a, overlay_array_b,
                 iter, hist, seeds, last_out, acc, thr>>

(***************************************************************************)
(* Spec: process_file on bounded images and overlays                       *)
(***************************************************************************)

White == <<255, 255, 255, 255>>

\* The source images: uniform white; black with a white hook in the middle
\* column and the lower right corner (strength creeps along the colour edge
\* and overtakes what arrived first across it, which takes the most steps);
\* one red pixel on grey.
ImageOf(kind, width, height) ==
  [width |-> width, height |-> height,
   rows |-> [y \in 0..(height - 1) |-> [x \in 0..(width - 1) |->
               CASE kind = 0 -> White
                 [] kind = 1 -> IF (x = 1 /\ y >= 1) \/ (x = 2 /\ y = 2)
                                  THEN White ELSE <<0, 0, 0, 255>>
                 [] OTHER -> IF x = 0 /\ y = 0 THEN <<255, 0, 0, 255>>
                                               ELSE <<128, 128, 128, 255>>]]]

\* The overlay pixels, per palette: <<foreground mark, background mark, rest>>.
\* Palette 1 is plain green, red and transparent; palette 2 sits on the
\* thresholds: red = green + 128 (not above the margin), red = green + 129,
\* and alpha = 0x80 (not above the opacity threshold).
Palettes ==
  << << <<0, 255, 0, 255>>, <<255, 0, 0, 255>>, <<0, 0, 0, 0>> >>,
     << <<255, 127, 0, 129>>, <<255, 126, 0, 255>>, <<255, 0, 0, 128>> >> >>

\* The overlay with the foreground mark at index f and the background mark
\* at index b (-1: none).
OverlayOf(pal, width, height, f, b) ==
  [width |-> width, height |-> height,
   rows |-> [y \in 0..(height - 1) |-> [x \in 0..(width - 1) |->
               IF x + y * width = f THEN Palettes[pal][1]
               ELSE IF x + y * width = b THEN Palettes[pal][2]
               ELSE Palettes[pal][3]]]]

\* Overlays of the image's size, with every placement of the two marks, and
\* overlays one column narrower or one row taller, with the marks in the
\* corners.
OverlaysFor(width, height) ==
  {OverlayOf(pal, width, height, f, b) :
     pal \in 1..Len(Palettes), f \in -1..(width * height - 1),
     b \in -1..(width * height - 1)}
  \cup
  {OverlayOf(pal, d[1], d[2], f, IF last THEN d[1] * d[2] - 1 ELSE -1) :
     pal \in 1..Len(Palettes),
     d \in {<<width - 1, height>>, <<width, height + 1>>} \ {<<0, height>>},
     f \in {-1, 0}, last \in BOOLEAN}

Init ==
  \E width \in Dims, height \in Dims, kind \in 0..2 :
    \E ovl \in OverlaysFor(width, height) :
      /\ pc = "start"
      /\ image = ImageOf(kind, width, height)
      /\ overlay = ovl
      /\ image_array = <<>>
      /\ heap = << <<>>, <<>> >>
      /\ overlay_array_a = 0
      /\ overlay_array_b = 0
      /\ g_array = <<>>
      /\ iter = 0
      /\ hist = <<>>
      /\ seeds = <<>>
      /\ last_out = 0
      /\ acc = {}
      /\ thr = ThrIdle

Next == InitArrays \/ Blur \/ CalcG \/ Process \/ GenerateAlpha

Spec == Init /\ [][Next]_vars

(***************************************************************************)
(* SpecThreads: process_iteration thread by thread                         *)
(*                                                                         *)
(* A worker's step is one call of process_pixel_internal or                *)
(* process_pixel_border: the call reads the in block and g_array, which no *)
(* thread writes during the step, and reads and writes one cell of out.    *)
(***************************************************************************)

\* The threads of a step: 0 .. N_THREADS-1 run process_iteration_thread,
\* N_THREADS runs process_iteration_borders_thread.
Workers == 0..N_THREADS

\* The number of pixel calls thread n makes.
work_len(n) ==
  IF n < N_THREADS
  THEN Len(thread_indices(image.width, image.height, n))
  ELSE Len(border_cells(image.width, image.height))

\* The five pthread_create calls. A thread that has been created and has
\* not run yet is as good as one that is created later.
Fork ==
  /\ pc = "process"
  /\ thr' = [active |-> TRUE,
             pos |-> [n \in Workers |-> 0],
             ret |-> [n \in Workers |-> TRUE],
             wrote |-> [index \in DOMAIN heap[overlay_array_b] |-> {}],
             out0 |-> heap[overlay_array_b],
             seq |-> thr.seq]
  /\ pc' = "step"
  /\ UNCHANGED <<image, overlay, image_array, heap, overlay_array_a, overlay_array_b,
                 g_array, iter, hist, seeds, last_out, acc>>

\* The next process_pixel_internal call of interior thread n.
InteriorStep(n) ==
  /\ pc = "step"
  /\ thr.pos[n] < work_len(n)
  /\ LET index == thread_indices(image.width, image.height, n)[thr.pos[n] + 1]
     IN \E st \in {process_pixel_internal(index, heap[overlay_array_a],
                                          [out |-> heap[overlay_array_b],
                                           converged |-> thr.ret[n], acc |-> acc],
                                          g_array, neighbor_index_ofs(image.width))} :
          /\ heap' = [heap EXCEPT ![overlay_array_b] = st.out]
          /\ acc' = st.acc
          /\ thr' = [thr EXCEPT !.pos[n] = @ + 1, !.ret[n] = st.converged,
                                !.wrote = Wr(@, index, Rd(@, index) \cup {n})]
  /\ UNCHANGED <<pc, image, overlay, image_array, overlay_array_a, overlay_array_b,
                 g_array, iter, hist, seeds, last_out>>

\* The next process_pixel_border call of the border thread.
BorderStep ==
  /\ pc = "step"
  /\ thr.pos[N_THREADS] < work_len(N_THREADS)
  /\ LET cell == border_cells(image.width, image.height)[thr.pos[N_THREADS] + 1]
         index == image.width * cell[2] + cell[1]
     IN \E st \in {process_pixel_border(image.width, image.height, cell[1], cell[2],
                                        heap[overlay_array_a],
                                        [out |-> heap[overlay_array_b],
                                         converged |-> thr.ret[N_THREADS], acc |-> acc],
                                        g_array, neighbor_index_ofs(image.width))} :
          /\ heap' = [heap EXCEPT ![overlay_array_b] = st.out]
          /\ acc' = st.acc
          /\ thr' = [thr EXCEPT !.pos[N_THREADS] = @ + 1,
                                !.ret[N_THREADS] = st.converged,
                                !.wrote = Wr(@, index, Rd(@, index) \cup {N_THREADS})]
  /\ UNCHANGED <<pc, image, overlay, image_array, overlay_array_a, overlay_array_b,
                 g_array, iter, hist, seeds, last_out>>

\* thr.seq is a history variable: the two blocks and the results of the
\* steps as the build without WITH_THREADS computes them from the same
\* start, advanced by one sequential process_iteration at every join.

\* Variant of AllReturned: the join loop stops at i < N_THREADS, the border
\* thread is not waited for.
AllReturned_interior == \A n \in 0..(N_THREADS - 1) : thr.pos[n] = work_len(n)

\* Every thread has returned.
AllReturned == \A n \in Workers : thr.pos[n] = work_len(n)

\* The pthread_join loop, process_iteration's return, and the rest of the
\* while condition in process_file.
Join ==
  /\ pc = "step"
  /\ AllReturned
  /\ LoopTail(collect([k \in 1..(N_THREADS + 1) |-> thr.ret[k - 1]]))
  /\ \E r \in {process_iteration_sequential(image.width, image.height,
                                             thr.seq.heap[overlay_array_a],
                                             thr.seq.heap[overlay_array_b], g_array)} :
        thr' = [ThrIdle EXCEPT !.seq =
                  [heap |-> [thr.seq.heap EXCEPT ![overlay_array_b] = r.out],
                   hist |-> Append(thr.seq.hist, r.converged)]]
  /\ UNCHANGED <<image, overlay, image_array, heap, g_array, seeds, acc>>

\* The grids of SpecThreads: tall enough for every interior thread to have
\* a row and for thread 0 to have a second one.
ThreadDims == Dims \X (1..(N_THREADS + MaxDim))

\* Seeds in the corners and in the middle.
ThreadSeeds(n) ==
  {[index \in 0..(n - 1) |-> IF index = f THEN Q ELSE IF index = b THEN -Q ELSE 0] :
     f \in {-1, 0}, b \in {n - 1, n \div 2}}

ThreadGFields(width, height) ==
  {GField(width, height, 0, 0, 4), GField(width, height, 1, 1, 0)}

\* Cell index is off the first and last row and column.
InteriorCell(width, height, index) ==
  /\ 0 < index % width /\ index % width < width - 1
  /\ 0 < index \div width /\ index \div width < height - 1

\* The affinity field of an image whose interior has one colour and whose
\* border has the colour farthest from it: weight 1 between two interior
\* cells and between two border cells, 0 between an interior and a border
\* cell.
GFieldSplit(width, height) ==
  [k \in 0..(width * height * 8 - 1) |->
     LET index == k \div 8
         i == k % 8
     IN IF InGrid(width, height, (index % width) + nx8[i], (index \div width) + ny8[i])
        THEN IF InteriorCell(width, height, index)
                  = InteriorCell(width, height, index + neighbor_index_ofs(width)[i])
             THEN Q ELSE 0
        ELSE Unset]

\* The seed fields and affinity fields of SpecThreads, in pairs: every seed
\* field of ThreadSeeds with every field of ThreadGFields, and on a grid with
\* an interior one foreground seed in the first interior cell with GFieldSplit.
ThreadInputs(width, height) ==
  (ThreadSeeds(width * height) \X ThreadGFields(width, height))
    \cup (IF width >= 3 /\ height >= 3
          THEN {<<[index \in 0..(width * height - 1) |->
                     IF index = width + 1 THEN Q ELSE 0],
                  GFieldSplit(width, height)>>}
          ELSE {})

InitThreads ==
  \E d \in ThreadDims :
    \E sg \in ThreadInputs(d[1], d[2]) : \E s \in {sg[1]}, g \in {sg[2]} :
      /\ pc = "process"
      /\ image = BlankImage(d[1], d[2])
      /\ overlay = BlankImage(d[1], d[2])
      /\ image_array = [k \in 0..(d[1] * d[2] * 3 - 1) |-> 0]
      /\ heap = <<s, [index \in 0..(d[1] * d[2] - 1) |-> 0]>>
      /\ overlay_array_a = 1
      /\ overlay_array_b = 2
      /\ g_array = g
      /\ iter = 0
      /\ hist = <<>>
      /\ seeds = s
      /\ last_out = 0
      /\ acc = {}
      /\ thr = [ThrIdle EXCEPT !.seq.heap = <<s, [index \in 0..(d[1] * d[2] - 1) |-> 0]>>]

NextThreads ==
  \/ Fork
  \/ \E n \in 0..(N_THREADS - 1) : InteriorStep(n)
  \/ BorderStep
  \/ Join
  \/ GenerateAlpha

SpecThreads == InitThreads /\ [][NextThreads]_vars

(***************************************************************************)
(* SpecBlur: blur_image_array in IEEE single precision                     *)
(*                                                                         *)
(* Here a float v is the integer v * 2^27, and every sum and quotient is   *)
(* rounded to 24 significant bits, ties to even.  This is exact for 0 and  *)
(* for v >= 1/16: the colours are drawn from bytes 0 and 144..255, whose   *)
(* means over at most nine cells are 0 or at least 144/255/9 > 1/16.       *)
(***************************************************************************)

F32One == 2^27

F32Mant == 2^24

\* The distance between the floats around n: the least power of two s with
\* n < 2^24 * s.
RECURSIVE Spacing(_, _)
Spacing(n, s) == IF n \div s < F32Mant THEN s ELSE Spacing(n, 2 * s)

\* float + float
F32Add(a, b) == LET s == Spacing(a + b, 1) IN RoundDiv(a + b, s) * s

\* float / (float) d, d a small integer
F32Div(n, d) == LET s == Spacing(n \div d, 1) IN RoundDiv(n, d * s) * s

\* The number of doublings that take byte b into 128..255.
RECURSIVE Doublings(_)
Doublings(b) == IF b >= 128 THEN 0 ELSE 1 + Doublings(2 * b)

\* (float) b / 255.0 for a byte b that is 0 or at least 16: the quotient
\* b * 2^j * 2^24 / 255 is taken in two stages of 12 bits to stay within the
\* model checker's integers.
byte_to_float32(b) ==
  IF b = 0 THEN 0
  ELSE LET j == Doublings(b)
           c == b * 2^j
           q == (c * 2^12) \div 255
           r == (c * 2^12) % 255
       IN (q * 2^12 + RoundDiv(r * 2^12, 255)) * 2^(3 - j)

\* Variant of blur32_quot: the divisor is 9 for every pixel.
blur32_quot_nine(temp, n_pixels) == F32Div(temp, 9)

\* temp_array [index] /= (float) n_pixels
blur32_quot(temp, n_pixels) == F32Div(temp, n_pixels)

\* The loop over i of blur_image_array for the float at k = index + c: the
\* sum is taken from array in the order of nx9, ny9, each addition rounded.
RECURSIVE blur32_acc(_, _, _, _, _, _, _)
blur32_acc(width, height, array, k, i, temp, n_pixels) ==
  LET c == k % 3
      x == (k \div 3) % width
      y == (k \div 3) \div width
  IN IF i = 9 THEN blur32_quot(temp, n_pixels)
     ELSE IF ~InGrid(width, height, x + nx9[i], y + ny9[i])
     THEN blur32_acc(width, height, array, k, i + 1, temp, n_pixels)
     ELSE blur32_acc(width, height, array, k, i + 1,
                     F32Add(temp, array[(x + nx9[i] + ((y + ny9[i]) * width)) * 3 + c]),
                     n_pixels + 1)

\* blur_image_array on single precision floats.
blur_image_array32(width, height, array) ==
  [k \in DOMAIN array |-> blur32_acc(width, height, array, k, 0, 0, 0)]

\* The colour bytes of SpecBlur.
BlurBytes == <<0, 144, 173, 200, 255>>

\* The images of SpecBlur: the five uniform greys; one uniform colour; one
\* white pixel on black; a checkerboard; a pattern over all five bytes that
\* differs by channel.
BlurImageOf(kind, width, height) ==
  [width |-> width, height |-> height,
   rows |-> [y \in 0..(height - 1) |-> [x \in 0..(width - 1) |->
               CASE kind \in 1..5 -> <<BlurBytes[kind], BlurBytes[kind], BlurBytes[kind], 255>>
                 [] kind = 6 -> <<173, 200, 255, 255>>
                 [] kind = 7 -> IF x = 0 /\ y = 0 THEN White ELSE <<0, 0, 0, 255>>
                 [] kind = 8 -> IF (x + y) % 2 = 0 THEN <<144, 144, 144, 255>> ELSE White
                 [] OTHER -> <<BlurBytes[1 + ((x + 2 * y) % 5)],
                               BlurBytes[1 + ((2 * x + y) % 5)],
                               BlurBytes[1 + ((x + y) % 5)], 255>>]]]

\* process_file before the call of blur_image_array (line 668).
InitBlur ==
  \E width \in Dims, height \in Dims, kind \in 1..9 :
    /\ pc = "blur32"
    /\ image = BlurImageOf(kind, width, height)
    /\ overlay = BlankImage(width, height)
    /\ image_array =
         [k \in 0..(width * height * 3 - 1) |->
            byte_to_float32(get_pixel(BlurImageOf(kind, width, height),
                                      (k \div 3) % width, (k \div 3) \div width,
                                      0)[(k % 3) + 1])]
    /\ heap = <<[index \in 0..(width * height - 1) |-> 0],
                [index \in 0..(width * height - 1) |-> 0]>>
    /\ overlay_array_a = 1
    /\ overlay_array_b = 2
    /\ g_array = [k \in 0..(width * height * 8 - 1) |-> Unset]
    /\ iter = 0
    /\ hist = <<>>
    /\ seeds = [index \in 0..(width * height - 1) |-> 0]
    /\ last_out = 0
    /\ acc = {}
    /\ thr = ThrIdle

\* The call of blur_image_array.
Blur32 ==
  /\ pc = "blur32"
  /\ image_array' = blur_image_array32(image.width, image.height, image_array)
  /\ pc' = "blurred"
  /\ UNCHANGED <<image, overlay, heap, overlay_array_a, overlay_array_b, g_array,
                 iter, hist, seeds, last_out, acc, thr>>

NextBlur == Blur32

SpecBlur == InitBlur /\ [][NextBlur]_vars

(***************************************************************************)
(* SpecConverge: the while loop under the source's ceiling                 *)
(*                                                                         *)
(* The grids of the model have far fewer cells than the 2000 of the        *)
(* source's max_iter, so here the loop is the source's, not scaled down.   *)
(* The number of calls is capped above the number of cells of the largest  *)
(* grid only to keep the state space finite.                               *)
(***************************************************************************)

\* const int max_iter = 2000
max_iter_source == 2000

\* The cap on the calls of process_iteration in SpecConverge.
StepCap == MaxDim * MaxDim + 2

\* One evaluation of the while condition with max_iter = 2000, the call of
\* process_iteration included, and the body when the condition holds.
ProcessUncut ==
  /\ pc = "process"
  /\ Len(hist) < StepCap
  /\ \E r \in {process_iteration(image.width, image.height, heap[overlay_array_a],
                                heap[overlay_array_b], g_array)} :
        /\ heap' = [heap EXCEPT ![overlay_array_b] = r.out]
        /\ acc' = acc \cup r.acc
        /\ hist' = Append(hist, r.converged)
        /\ iter' = iter_after(r.converged, iter)
        /\ IF ~r.converged /\ iter + 1 < max_iter_source
           THEN /\ overlay_array_a' = overlay_array_b
                /\ overlay_array_b' = overlay_array_a
                /\ pc' = "process"
           ELSE /\ UNCHANGED <<overlay_array_a, overlay_array_b>>
                /\ pc' = "alpha"
  /\ last_out' = overlay_array_b
  /\ UNCHANGED <<image, overlay, image_array, g_array, seeds, thr>>

NextConverge == ProcessUncut \/ GenerateAlpha

SpecConverge == InitEngine /\ [][NextConverge]_vars

(***************************************************************************)
(* Properties                                                              *)
(***************************************************************************)

Cells == 0..(image.width * image.height - 1)

\* The conversion of the last process_iteration call's result.
LastConverged == hist # <<>> /\ hist[Len(hist)]

IsInterior(index) ==
  /\ 0 < index % image.width /\ index % image.width < image.width - 1
  /\ 0 < index \div image.width /\ index \div image.width < image.height - 1

Range(f) == {f[k] : k \in DOMAIN f}

\* C1 (SpecEngine): magnitude bound. With every weight in [-1, 1], every
\* cell of both strength blocks has absolute value at most 1.0 after any
\* number of steps.
MagnitudeBound ==
  \A b \in 1..2 : \A index \in DOMAIN heap[b] : Abs(heap[b][index]) <= Q

\* Two steps or more have run, and cells have been conquered with
\* attenuated strength on both sides.
MagnitudeWitness ==
  /\ Len(hist) >= 2
  /\ \E index \in Cells : 0 < heap[last_out][index] /\ heap[last_out][index] < Q
  /\ \E index \in Cells : -Q < heap[last_out][index] /\ heap[last_out][index] < 0
  /\ \E k \in DOMAIN g_array : g_array[k] = -Q

\* C2 (SpecEngine): seed uncontestability. A cell that starts at +1.0 or
\* -1.0 holds exactly that value in the block written by every step.
SeedsHold ==
  last_out # 0 =>
    \A index \in Cells : Abs(seeds[index]) = Q => heap[last_out][index] = seeds[index]

\* Both seeds are set, one next to the other with a weight of -1.0 or 1.0
\* between them, and three steps have run.
SeedsWitness ==
  /\ Len(hist) >= 3
  /\ \E index \in Cells, i \in 0..7 :
       /\ InGrid(image.width, image.height, (index % image.width) + nx8[i],
                 (index \div image.width) + ny8[i])
       /\ seeds[index] = Q
       /\ seeds[index + neighbor_index_ofs(image.width)[i]] = -Q
       /\ Abs(g_array[index * 8 + i]) = Q

\* C3 (Spec): halting. No call of process_iteration follows one that
\* reported no change, there are never more than max_iter calls, the loop
\* goes on only below the ceiling, and it ends only on a call that
\* reported no change or on call number max_iter.
Halting ==
  /\ Len(hist) <= max_iter
  /\ \A k \in 1..(Len(hist) - 1) : ~hist[k]
  /\ iter = Cardinality({k \in 1..Len(hist) : ~hist[k]})
  /\ pc = "process" => Len(hist) < max_iter /\ ~LastConverged
  /\ pc \in {"alpha", "done"} => LastConverged \/ Len(hist) = max_iter

\* A run stopped by the ceiling: call number max_iter still reported a change.
HaltingWitness ==
  pc = "done" /\ Len(hist) = max_iter /\ ~LastConverged

\* C4 (SpecThreads): worker-count determinism. When every thread of a step
\* has returned, under any interleaving of their calls, the out block and
\* the combined result are those of the sequential process_iteration on the
\* same in block, out block and affinities; and between steps the blocks
\* and the results of all steps so far are those of the sequential run.
WorkersAgree ==
  /\ (pc = "step" /\ AllReturned) =>
       LET r == process_iteration_sequential(image.width, image.height,
                                             heap[overlay_array_a], thr.out0, g_array)
       IN /\ heap[overlay_array_b] = r.out
          /\ collect([k \in 1..(N_THREADS + 1) |-> thr.ret[k - 1]]) = r.converged
  /\ pc # "step" => thr.seq.heap = heap /\ thr.seq.hist = hist

\* A run of two steps or more has ended on a grid where each of the four
\* interior threads has a row, with a conquered interior cell.
WorkersAgreeWitness ==
  /\ pc = "done"
  /\ Len(hist) >= 2
  /\ \A n \in 0..(N_THREADS - 1) : work_len(n) > 0
  /\ \E index \in Cells :
       IsInterior(index) /\ seeds[index] = 0 /\ heap[last_out][index] # 0

\* C5 (SpecThreads): disjoint writes. The index sets of the interior
\* threads are pairwise disjoint and hold interior cells only, the border
\* thread is handed cells of the outer ring only, and within a step no cell
\* of out is written by two threads.
DisjointWrites ==
  /\ \A n, m \in 0..(N_THREADS - 1) :
       n # m => Range(thread_indices(image.width, image.height, n))
                  \cap Range(thread_indices(image.width, image.height, m)) = {}
  /\ \A n \in 0..(N_THREADS - 1) :
       \A index \in Range(thread_indices(image.width, image.height, n)) :
         index \in Cells /\ IsInterior(index)
  /\ \A cell \in Range(border_cells(image.width, image.height)) :
       /\ InGrid(image.width, image.height, cell[1], cell[2])
       /\ cell[1] \in {0, image.width - 1} \/ cell[2] \in {0, image.height - 1}
  /\ thr.active => \A index \in DOMAIN thr.wrote : Cardinality(thr.wrote[index]) <= 1

\* Every thread has returned on a grid where thread 0 has two rows; every
\* cell has been written.
DisjointWitness ==
  /\ pc = "step" /\ AllReturned
  /\ image.width >= 3
  /\ work_len(0) > work_len(1) /\ work_len(N_THREADS - 1) > 0
  /\ \A index \in Cells : thr.wrote[index] # {}

\* C6 (SpecThreads): bounds safety. Every neighbour read of every step is
\* made for a pixel of the grid and a direction whose neighbour is in the
\* grid, from a g_array slot that calc_g sets; the interior threads visit
\* no cell of the first or last row or column.
BoundsSafe ==
  /\ \A a \in acc :
       /\ a[1] \in Cells
       /\ InGrid(image.width, image.height, (a[1] % image.width) + nx8[a[2]],
                 (a[1] \div image.width) + ny8[a[2]])
       /\ g_array[a[1] * 8 + a[2]] # Unset
  /\ thr.active =>
       \A index \in DOMAIN thr.wrote :
         \A n \in thr.wrote[index] : n < N_THREADS => IsInterior(index)

\* A step has been run to its end on a strip one cell wide and three or
\* more long, with reads made.
BoundsWitness ==
  /\ pc = "step" /\ AllReturned
  /\ image.width = 1 /\ image.height >= 3
  /\ acc # {}

\* C7 (Spec): fail-fast on mismatched inputs, as claimed. When the overlay's
\* width or height differs from the image's, no per-pixel field is
\* allocated and no step is run.
MismatchFailsFast ==
  (image.width # overlay.width \/ image.height # overlay.height) =>
    /\ image_array = <<>> /\ g_array = <<>> /\ heap = << <<>>, <<>> >>
    /\ hist = <<>>
    /\ pc \in {"start", "error"}

\* C8 (SpecEngine): idempotence of convergence. After a step that reported
\* no change the block it wrote equals the block it read, and one more
\* step from the written block reports no change and writes that block
\* again.
ConvergedIsFixpoint ==
  LastConverged =>
    /\ heap[overlay_array_b] = heap[overlay_array_a]
    /\ LET r == process_iteration(image.width, image.height, heap[overlay_array_b],
                                  heap[overlay_array_a], g_array)
       IN r.converged /\ r.out = heap[overlay_array_b]

\* A run converged at its third step, with a conquered cell.
FixpointWitness ==
  /\ pc = "done" /\ LastConverged /\ Len(hist) >= 3
  /\ \E index \in Cells : seeds[index] = 0 /\ heap[last_out][index] # 0

\* C9 (Spec): the mask. At the end the alpha of every pixel is 0xff iff the
\* strength the last executed step wrote for it is greater than 0, and 0x00
\* otherwise.
MaskFromLastStep ==
  pc = "done" =>
    /\ last_out # 0
    /\ \A y \in 0..(image.height - 1) : \A x \in 0..(image.width - 1) :
         image.rows[y][x][4] =
           (IF heap[last_out][x + y * image.width] > 0 THEN 255 ELSE 0)

\* A run stopped by the ceiling whose last block has cells above and below
\* 0 and differs in sign from the block before it.
MaskWitness ==
  /\ pc = "done" /\ ~LastConverged
  /\ \E index \in Cells : heap[last_out][index] > 0
  /\ \E index \in Cells : heap[last_out][index] < 0
  /\ \E index \in Cells : (heap[1][index] > 0) # (heap[2][index] > 0)

\* C10 (SpecEngine): no-seed run. If every initial strength is 0, the first
\* step reports no change, no second step is run, every strength stays 0,
\* and every pixel of the mask is transparent.
NoSeedRun ==
  (\A index \in Cells : seeds[index] = 0) =>
    /\ hist \in {<<>>, <<TRUE>>}
    /\ pc = "process" => hist = <<>>
    /\ pc \in {"alpha", "done"} => hist = <<TRUE>>
    /\ \A b \in 1..2 : \A index \in Cells : heap[b][index] = 0
    /\ pc = "done" =>
         \A y \in 0..(image.height - 1) : \A x \in 0..(image.width - 1) :
           image.rows[y][x][4] = 0

\* A run without seeds has ended on a grid with an interior cell and
\* negative as well as positive weights.
NoSeedWitness ==
  /\ pc = "done"
  /\ \A index \in Cells : seeds[index] = 0
  /\ image.width >= 3 /\ image.height >= 3
  /\ \E k \in DOMAIN g_array : g_array[k] = -Q
  /\ \E k \in DOMAIN g_array : g_array[k] = Q

\* The 3x3 grid with the top left cell seeded +1.0, the bottom right cell
\* seeded -1.0, no other seed, and one positive weight in every direction
\* that has a neighbour.
Scenario3x3 ==
  /\ image.width = 3 /\ image.height = 3
  /\ seeds = [index \in 0..8 |-> IF index = 0 THEN Q ELSE IF index = 8 THEN -Q ELSE 0]
  /\ \E g \in 1..Q : \A k \in DOMAIN g_array : g_array[k] \in {g, Unset}

\* The one weight of Scenario3x3: cell 0's weight towards its right neighbour.
ScenarioG == g_array[4]

\* C11 (SpecEngine): the 3x3 scenario. The run ends on a step that reported
\* no change; the two seeds keep +1.0 and -1.0; the two cells next to the top
\* left seed and not next to the other end at +g, the two cells next to the
\* bottom right seed and not next to the other end at -g.
Scenario3x3Splits ==
  (Scenario3x3 /\ pc \in {"alpha", "done"}) =>
    /\ LastConverged
    /\ heap[last_out][0] = Q /\ heap[last_out][8] = -Q
    /\ heap[last_out][1] = ScenarioG /\ heap[last_out][3] = ScenarioG
    /\ heap[last_out][5] = -ScenarioG /\ heap[last_out][7] = -ScenarioG

\* The scenario has run to its end with a weight below 1.0, and the far
\* corners have been reached too.
Scenario3x3Witness ==
  /\ Scenario3x3 /\ pc = "done"
  /\ ScenarioG < Q
  /\ heap[last_out][2] # 0 /\ heap[last_out][6] # 0
  /\ Len(hist) = 3

\* The overlay's sample for the cell, when the overlay has one there.
HasSample(index) ==
  index % image.width < overlay.width /\ index \div image.width < overlay.height

SampleAt(index) == overlay.rows[index \div image.width][index % image.width]

\* C12 (Spec): seed initialisation. After the init loop the strength of a
\* cell whose overlay sample has alpha 0x80 or less is 0; of any other it is
\* -1.0 if red - green is more than 128 and +1.0 if not. Every strength of
\* block A is -1.0, 0 or +1.0, and block B is all 0 until the first step.
SeedInit ==
  pc # "start" =>
    /\ \A index \in Cells :
         /\ seeds[index] \in {-Q, 0, Q}
         /\ HasSample(index) =>
              LET p == SampleAt(index)
              IN /\ p[4] <= 128 => seeds[index] = 0
                 /\ (p[4] > 128 /\ p[1] - p[2] > 128) => seeds[index] = -Q
                 /\ (p[4] > 128 /\ p[1] - p[2] <= 128) => seeds[index] = Q
    /\ hist = <<>> =>
         /\ overlay_array_a = 1 /\ overlay_array_b = 2
         /\ heap[1] = seeds
         /\ heap[2] = [index \in Cells |-> 0]

\* The init loop has run on an overlay that has a sample with alpha 0x80, one
\* with red = green + 128 and one with red = green + 129.
SeedInitWitness ==
  /\ pc = "blur"
  /\ image.width = overlay.width /\ image.height = overlay.height
  /\ \E index \in Cells : SampleAt(index)[4] = 128 /\ seeds[index] = 0
  /\ \E index \in Cells :
       SampleAt(index)[1] = SampleAt(index)[2] + 128 /\ seeds[index] = Q
  /\ \E index \in Cells :
       SampleAt(index)[1] = SampleAt(index)[2] + 129 /\ seeds[index] = -Q

\* C13 (Spec): output frame. No step of process_file changes the image's
\* width, height or the red, green or blue channel of any pixel; only alpha
\* is written.
OutputFrame ==
  [][/\ image'.width = image.width
     /\ image'.height = image.height
     /\ DOMAIN image'.rows = DOMAIN image.rows
     /\ \A y \in DOMAIN image.rows :
          /\ DOMAIN image'.rows[y] = DOMAIN image.rows[y]
          /\ \A x \in DOMAIN image.rows[y] : \A c \in 1..3 :
               image'.rows[y][x][c] = image.rows[y][x][c]]_vars

\* The run has ended on the grey image with the red pixel: the red pixel is
\* transparent and still red, another pixel is opaque and still grey.
OutputFrameWitness ==
  /\ pc = "done"
  /\ image.width = 3 /\ image.height = 3
  /\ image.rows[0][0] = <<255, 0, 0, 0>>
  /\ \E index \in Cells :
       image.rows[index \div 3][index % 3] = <<128, 128, 128, 255>>

\* The block the last step read: the one of the two it did not write.
LastIn == heap[3 - last_out]

LastOut == heap[last_out]

\* The directions of cell index that have a neighbour in the grid.
DirsOf(index) ==
  {d \in 0..7 : InGrid(image.width, image.height, (index % image.width) + nx8[d],
                       (index \div image.width) + ny8[d])}

\* weight * strength of the neighbour in direction d, from the block read.
Product(index, d) ==
  FMul(g_array[index * 8 + d], LastIn[index + neighbor_index_ofs(image.width)[d]])

\* C14 (SpecEngine): synchronous update rule. After a step every cell of
\* the block written is determined by the block read and the weights: if no
\* direction with a neighbour has |weight * in[neighbour]| > |in[p]| it is
\* in[p]; if one has, it is such a product of the greatest absolute value,
\* with the sign the weight gives it.
SynchronousUpdate ==
  last_out # 0 =>
    \A index \in Cells :
      IF \E d \in DirsOf(index) : Abs(Product(index, d)) > Abs(LastIn[index])
      THEN \E d \in DirsOf(index) :
             /\ LastOut[index] = Product(index, d)
             /\ \A e \in DirsOf(index) : Abs(Product(index, e)) <= Abs(Product(index, d))
      ELSE LastOut[index] = LastIn[index]

\* A second step has conquered a cell through a negative weight: the cell
\* has the sign opposite to the neighbour's, and the neighbour itself
\* changed in that step.
SynchronousWitness ==
  /\ Len(hist) >= 2
  /\ \E index \in Cells : \E d \in DirsOf(index) :
       LET n == index + neighbor_index_ofs(image.width)[d]
       IN /\ g_array[index * 8 + d] < 0
          /\ LastOut[index] = Product(index, d)
          /\ LastOut[index] # LastIn[index]
          /\ LastOut[index] * LastIn[n] < 0
          /\ LastOut[n] # LastIn[n]

\* C15 (SpecThreads): full coverage per step. On every grid, 1x1 and strips
\* included, when every thread of a step has returned every cell of the out
\* block has been written in that step.
FullCoverage ==
  (pc = "step" /\ AllReturned) =>
    /\ DOMAIN thr.wrote = Cells
    /\ \A index \in Cells : thr.wrote[index] # {}

\* The threads of a second step have returned on a grid where every interior
\* thread has a row; the step has replaced values the out block held from
\* two steps before, in the interior and on the border.
FullCoverageWitness ==
  /\ pc = "step" /\ AllReturned
  /\ Len(hist) = 1
  /\ \A n \in 0..(N_THREADS - 1) : work_len(n) > 0
  /\ \E index \in Cells :
       IsInterior(index) /\ heap[overlay_array_b][index] # thr.out0[index]
  /\ \E index \in Cells :
       ~IsInterior(index) /\ heap[overlay_array_b][index] # thr.out0[index]

\* The cells thread n has written in the running step.
WrittenBy(n) == {index \in DOMAIN thr.wrote : n \in thr.wrote[index]}

\* C16 (SpecThreads): convergence flag exactness. When a thread has returned,
\* its result is "no change" iff every cell it wrote equals the cell of the
\* in block; the step's result is "converged" iff every thread's is, which is
\* iff the out block equals the in block; and the result process_file gets
\* from a step is "converged" iff the block written equals the block read.
FlagExact ==
  /\ (pc = "step" /\ AllReturned) =>
       /\ \A n \in Workers :
            thr.ret[n] <=> \A index \in WrittenBy(n) :
                             heap[overlay_array_b][index] = heap[overlay_array_a][index]
       /\ collect([k \in 1..(N_THREADS + 1) |-> thr.ret[k - 1]])
            <=> \A n \in Workers : thr.ret[n]
       /\ collect([k \in 1..(N_THREADS + 1) |-> thr.ret[k - 1]])
            <=> heap[overlay_array_b] = heap[overlay_array_a]
  /\ (pc # "step" /\ last_out # 0) => (LastConverged <=> LastOut = LastIn)

\* Every thread of a step has returned, each with cells written, and one
\* interior thread alone has reported a change.
FlagExactWitness ==
  /\ pc = "step" /\ AllReturned
  /\ \A n \in Workers : work_len(n) > 0
  /\ \E n \in 0..(N_THREADS - 1) :
       ~thr.ret[n] /\ \A m \in Workers \ {n} : thr.ret[m]

\* Thread n of the running step has made all its calls.
Finished(n) == thr.pos[n] = work_len(n)

\* C17 (SpecThreads): step barrier. process_iteration returns, and its
\* result is recorded and the blocks are swapped, only when each of the
\* N_THREADS + 1 threads of the step has finished; the blocks are written
\* only between the creation of a step's threads and that return; and when
\* the threads of a step are created none of an earlier step is running.
StepBarrier ==
  [][/\ (pc = "step" /\ pc' # "step") => \A n \in Workers : Finished(n)
     /\ (hist' # hist \/ overlay_array_a' # overlay_array_a
           \/ overlay_array_b' # overlay_array_b \/ iter' # iter)
          => (pc = "step" /\ \A n \in Workers : Finished(n))
     /\ heap' # heap => (pc = "step" /\ pc' = "step" /\ hist' = hist)
     /\ (pc # "step" /\ pc' = "step")
          => (~thr.active /\ \A n \in Workers : thr'.pos[n] = 0)]_vars

\* The second step is running: one thread is between two of its calls, one
\* has finished and one has not made a call yet.
StepBarrierWitness ==
  /\ pc = "step" /\ Len(hist) = 1
  /\ \E n \in Workers : 0 < thr.pos[n] /\ thr.pos[n] < work_len(n)
  /\ \E n \in Workers : 0 < thr.pos[n] /\ Finished(n)
  /\ \E n \in Workers : thr.pos[n] = 0 /\ work_len(n) > 0

\* C18 (SpecThreads): step frame. The in and out blocks are always the two
\* different blocks; from the creation of a step's threads to their last
\* call the in block, the weights and the colour field do not change and
\* the blocks keep their roles; the roles change only at the return of a
\* step, by exchange; the weights and the colour field never change.
StepFrame ==
  /\ [](overlay_array_a # overlay_array_b /\ {overlay_array_a, overlay_array_b} = {1, 2})
  /\ [][/\ g_array' = g_array
        /\ image_array' = image_array
        /\ (pc = "step" /\ pc' = "step") =>
             /\ heap'[overlay_array_a] = heap[overlay_array_a]
             /\ overlay_array_a' = overlay_array_a
             /\ overlay_array_b' = overlay_array_b
        /\ (pc = "process" /\ pc' = "step") => UNCHANGED <<heap, overlay_array_a, overlay_array_b>>
        /\ overlay_array_a' # overlay_array_a =>
             /\ pc = "step" /\ pc' = "process"
             /\ overlay_array_a' = overlay_array_b
             /\ overlay_array_b' = overlay_array_a
             /\ heap' = heap]_vars

\* The second step is running after an exchange: the block that held the
\* seeds is the out block and has been written.
StepFrameWitness ==
  /\ pc = "step" /\ Len(hist) = 1
  /\ overlay_array_a = 2 /\ overlay_array_b = 1
  /\ heap[1] # seeds
  /\ heap[2] # [index \in Cells |-> 0]
  /\ \E n \in Workers : 0 < thr.pos[n] /\ thr.pos[n] < work_len(n)

\* The float (float) byte / 255.0 of the source image for slot k of
\* image_array, in the units of SpecBlur.
Orig32(k) ==
  byte_to_float32(image.rows[(k \div 3) \div image.width][(k \div 3) % image.width][(k % 3) + 1])

\* The cells of the 3x3 window around cell index that lie in the grid, as
\* <<x, y>>.
Window(index) ==
  {w \in ((index % image.width) - 1..(index % image.width) + 1)
           \X ((index \div image.width) - 1..(index \div image.width) + 1) :
     /\ 0 <= w[1] /\ w[1] < image.width
     /\ 0 <= w[2] /\ w[2] < image.height}

\* The sum, without rounding, of the source values of slot k's channel over
\* the window of its cell.
ExactSum(k) ==
  SumOver([w \in Window(k \div 3) |-> Orig32((w[1] + w[2] * image.width) * 3 + (k % 3))],
          Window(k \div 3))

\* Slot k holds the mean of the source values over the window of its cell,
\* to within the rounding of the additions and of the division: n + 1 units
\* in the 24th significant bit for n cells.
MeanOfWindow(k) ==
  LET n == Cardinality(Window(k \div 3))
  IN /\ n \in {1, 2, 3, 4, 6, 9}
     /\ (image.width >= 2 /\ image.height >= 2) =>
          n = (IF IsInterior(k \div 3) THEN 9
               ELSE IF (k \div 3) % image.width \in {0, image.width - 1}
                       /\ (k \div 3) \div image.width \in {0, image.height - 1}
               THEN 4 ELSE 6)
     /\ Abs(n * image_array[k] - ExactSum(k)) <= (n + 1) * (ExactSum(k) \div F32Mant) + n

\* Every pixel of the source image has the colour of the first.
UniformImage ==
  \A y \in 0..(image.height - 1) : \A x \in 0..(image.width - 1) :
    image.rows[y][x] = image.rows[0][0]

\* C19 (SpecBlur), as claimed: after blur_image_array every value is the mean
\* of the source values over its cell's window, and a uniform field is left
\* unchanged.
BlurAsClaimed ==
  pc = "blurred" =>
    /\ \A k \in DOMAIN image_array : MeanOfWindow(k)
    /\ UniformImage => \A k \in DOMAIN image_array : image_array[k] = Orig32(k)

\* C19 (SpecBlur), amended: after blur_image_array every value is the mean
\* of the source values over its cell's window (4 cells at a corner, 6 on an
\* edge, 9 in the interior, fewer on grids one cell wide), computed from the
\* values before the call; a uniform field is left unchanged up to rounding:
\* each value is within two units in the last place of the source value, and
\* equal to it where that is 0.0 or 1.0.
BlurMean ==
  pc = "blurred" =>
    /\ \A k \in DOMAIN image_array : MeanOfWindow(k)
    /\ UniformImage =>
         \A k \in DOMAIN image_array :
           /\ Abs(image_array[k] - Orig32(k)) <= 2 * Spacing(Orig32(k), 1)
           /\ Orig32(k) \in {0, F32One} => image_array[k] = Orig32(k)

\* The uniform grey 173 has been blurred on the 3x3 grid: the corners hold
\* the source value, the centre and an edge do not.
BlurWitness ==
  /\ pc = "blurred"
  /\ image.width = 3 /\ image.height = 3
  /\ UniformImage /\ image.rows[0][0] = <<173, 173, 173, 255>>
  /\ image_array[0] = Orig32(0)
  /\ image_array[3] # Orig32(3)
  /\ image_array[12] # Orig32(12)

\* C20 (SpecEngine): monotone confidence. After every step each cell of the
\* block written is at least as large in absolute value as the cell of the
\* block read and as the cell's initial strength; a cell that was not 0 is
\* not 0; and a cell whose value differs from the one read, in sign or
\* otherwise, is strictly larger in absolute value.
MonotoneConfidence ==
  last_out # 0 =>
    \A index \in Cells :
      /\ Abs(LastOut[index]) >= Abs(LastIn[index])
      /\ Abs(LastOut[index]) >= Abs(seeds[index])
      /\ LastIn[index] # 0 => LastOut[index] # 0
      /\ LastOut[index] # LastIn[index] => Abs(LastOut[index]) > Abs(LastIn[index])
      /\ LastOut[index] * LastIn[index] < 0 => Abs(LastOut[index]) > Abs(LastIn[index])

\* A step after the first has changed the sign of a cell that was not 0, and
\* has raised another cell without changing its sign.
MonotoneWitness ==
  /\ Len(hist) >= 2
  /\ \E index \in Cells : LastOut[index] * LastIn[index] < 0
  /\ \E index \in Cells :
       LastOut[index] * LastIn[index] > 0 /\ Abs(LastOut[index]) > Abs(LastIn[index])

\* C21 (SpecConverge): guaranteed convergence. On a grid of W*H cells, for
\* every seed field and every weight field with |g| <= 1, at most W*H - 1
\* steps report a change, so a step numbered at most W*H reports no change;
\* the loop ends only on such a step, never on the ceiling.
Converges ==
  /\ Len(hist) <= image.width * image.height
  /\ Cardinality({k \in 1..Len(hist) : ~hist[k]}) <= image.width * image.height - 1
  /\ pc = "process" => Len(hist) < image.width * image.height
  /\ pc \in {"alpha", "done"} => LastConverged

\* A run has ended on its step number W*H, on a grid of four cells or
\* more: every step before it reported a change.
ConvergesWitness ==
  /\ pc = "done"
  /\ image.width * image.height >= 4
  /\ Len(hist) = image.width * image.height
  /\ LastConverged

\* The greatest absolute value among the candidates of cell index.
MaxCandidate(index) ==
  CHOOSE m \in {Abs(Product(index, d)) : d \in DirsOf(index)} :
    \A e \in DirsOf(index) : Abs(Product(index, e)) <= m

\* The first direction, in the order NW, N, NE, W, E, SW, S, SE, whose
\* candidate has the greatest absolute value.
FirstMaximal(index) ==
  CHOOSE d \in DirsOf(index) :
    /\ Abs(Product(index, d)) = MaxCandidate(index)
    /\ \A e \in DirsOf(index) : Abs(Product(index, e)) = MaxCandidate(index) => d <= e

\* C22 (SpecEngine): tie-breaking. After a step, a cell with a candidate
\* whose absolute value exceeds the cell's own holds the candidate of the
\* first direction, in the order NW, N, NE, W, E, SW, S, SE, among those of
\* the greatest absolute value; a cell whose candidates at most equal its own
\* absolute value is unchanged. In the 3x3 scenario the run ends with the
\* centre at +g and the top right and bottom left corners at +g*g, all three
\* positive.
TieBreak ==
  /\ last_out # 0 =>
       \A index \in Cells :
         IF DirsOf(index) # {} /\ MaxCandidate(index) > Abs(LastIn[index])
         THEN LastOut[index] = Product(index, FirstMaximal(index))
         ELSE LastOut[index] = LastIn[index]
  /\ (Scenario3x3 /\ pc \in {"alpha", "done"}) =>
       /\ heap[last_out][4] = ScenarioG
       /\ heap[last_out][2] = FMul(ScenarioG, ScenarioG)
       /\ heap[last_out][6] = FMul(ScenarioG, ScenarioG)
       /\ heap[last_out][2] > 0 /\ heap[last_out][4] > 0 /\ heap[last_out][6] > 0

\* The second step of the 3x3 scenario with a weight below 1.0: the top right
\* corner, 0 before, had the candidates +g*g from W and -g*g from S and took
\* the one from W; the centre, at +g, had the candidate -g from SE and kept
\* its value.
TieBreakWitness ==
  /\ Scenario3x3 /\ Len(hist) = 2
  /\ ScenarioG < Q
  /\ LastIn[2] = 0
  /\ Product(2, 3) > 0 /\ Product(2, 6) = -Product(2, 3)
  /\ MaxCandidate(2) = Product(2, 3)
  /\ LastOut[2] = Product(2, 3)
  /\ LastIn[4] > 0 /\ Product(4, 7) = -LastIn[4]
  /\ LastOut[4] = LastIn[4]

====
